---- MODULE Spec2Model ----
(***************************************************************************)
(* Subatomic32<T> / Subatomic64<T>: a Copy type T of exactly 4 (8) bytes   *)
(* kept in an AtomicU32 (AtomicU64).  Every method reinterprets its        *)
(* arguments with transmute_copy, performs one SeqCst operation on the     *)
(* atomic integer and reinterprets the outcome back as T.                  *)
(*                                                                         *)
(* The atomic integer is represented by its in-memory bytes (a sequence of *)
(* 4 or 8 bytes), a T value by a record [tag, count] whose memory image is *)
(* the little-endian image of its two fields, one after the other.         *)
(***************************************************************************)
EXTENDS Integers, Sequences, FiniteSets, TLC

VARIABLES features, cells, written, installed, ev, sw, lp, pr, lt, rc

vars == <<features, cells, written, installed, ev, sw, lp, pr, lt, rc>>

(***************************************************************************)
(* Bounds of the model.                                                    *)
(***************************************************************************)
MaxVal == 2
NumThreads == 2
NumSwappers == 2
NumRacers == 2

(***************************************************************************)
(* The two components and their native widths.                             *)
(***************************************************************************)
Cells == {"Subatomic32", "Subatomic64"}

\* Bytes of the native integer: AtomicU32, AtomicU64.
U32Bytes == 4
U64Bytes == 8

Width(c) == IF c = "Subatomic32" THEN U32Bytes ELSE U64Bytes

\* The sizes the constructors assert.
AssertSize32 == 4
AssertSize64 == 8

Threads == 1..NumThreads

(***************************************************************************)
(* The type parameter T.  Three Copy types, each a pair of unsigned fields *)
(* {tag, count}: Pair8 = (u8, u8), Pair16 = (u16, u16), Pair32 = (u32,     *)
(* u32), of 2, 4 and 8 bytes.                                              *)
(***************************************************************************)
Types == {"Pair8", "Pair16", "Pair32"}

FieldBytes(ty) == CASE ty = "Pair8" -> 1 [] ty = "Pair16" -> 2 [] OTHER -> 4

SizeOf(ty) == 2 * FieldBytes(ty)

\* The values of T the callers use: tag and count each 0 or 1, then larger.
Values == {[tag |-> i % 2, count |-> i \div 2] : i \in 0..MaxVal}

NoValue == [tag |-> -1, count |-> -1]

DefaultValue == [tag |-> 0, count |-> 0]

(***************************************************************************)
(* Memory image of a T value and the value a memory image denotes.         *)
(***************************************************************************)
Pow256(i) == CASE i = 0 -> 1 [] i = 1 -> 256 [] i = 2 -> 65536 [] OTHER -> 16777216

LE(n, k) == [i \in 1..k |-> (n \div Pow256(i - 1)) % 256]

RECURSIVE Num(_)
Num(b) == IF Len(b) = 0 THEN 0 ELSE b[1] + 256 * Num(Tail(b))

ToBytes(ty, v) == LE(v.tag, FieldBytes(ty)) \o LE(v.count, FieldBytes(ty))

FromBytes(ty, b) ==
    [tag |-> Num(SubSeq(b, 1, FieldBytes(ty))),
     count |-> Num(SubSeq(b, FieldBytes(ty) + 1, 2 * FieldBytes(ty)))]

(***************************************************************************)
(* core::mem::transmute_copy::<Src, Dst>(&src): copies size_of::<Dst>()    *)
(* bytes starting at src.  When Dst is larger than Src the bytes past the  *)
(* end of src are whatever lies there (undefined behaviour): any byte of   *)
(* StrayBytes.  The result is the set of possible outcomes, a singleton    *)
(* whenever Dst is not larger than Src.                                    *)
(***************************************************************************)
StrayBytes == {0, 1}

transmute_copy(src, n) ==
    LET m == IF Len(src) < n THEN Len(src) ELSE n
    IN  {SubSeq(src, 1, m) \o [i \in 1..(n - m) |-> pad[i]] :
            pad \in [1..(n - m) -> StrayBytes]}

(***************************************************************************)
(* The native atomic integer (core::sync::atomic::AtomicU32 / AtomicU64),  *)
(* on the byte image.  Each is one indivisible SeqCst step.                *)
(***************************************************************************)
Atomic_store(inner, val) == [inner |-> val, kind |-> "unit", out |-> inner]

Atomic_swap(inner, val) == [inner |-> val, kind |-> "val", out |-> inner]

Atomic_load(inner) == [inner |-> inner, kind |-> "val", out |-> inner]

Atomic_compare_exchange(inner, current, new) ==
    IF inner = current
    THEN [inner |-> new, kind |-> "ok", out |-> inner]
    ELSE [inner |-> inner, kind |-> "err", out |-> inner]

\* The weak form may also fail although the comparison holds.
Atomic_compare_exchange_weak(inner, current, new) ==
    {Atomic_compare_exchange(inner, current, new),
     [inner |-> inner, kind |-> "err", out |-> inner]}

(***************************************************************************)
(* A cell: the type it was built for (PhantomData<T>) and the bytes of its *)
(* atomic integer.  NoCell: no cell was built.                             *)
(***************************************************************************)
NoCell == [ty |-> "none", inner |-> <<>>]

\* The T value a cell holds.
ValueOf(cell) ==
    IF cell.ty \in Types /\ Len(cell.inner) = SizeOf(cell.ty)
    THEN FromBytes(cell.ty, cell.inner)
    ELSE NoValue

\* An outcome of a method: the cell afterwards, the shape of the result
\* ("unit", "val", "ok", "err", "panic") and the T value it carries.
Outcome(cell, kind, ret) == [cell |-> cell, kind |-> kind, ret |-> ret]

\* The integer outcome r of an atomic operation on a cell of type ty, with
\* its result reinterpreted as T.
Reinterpreted(ty, r) ==
    {Outcome([ty |-> ty, inner |-> r.inner], r.kind, FromBytes(ty, b)) :
        b \in transmute_copy(r.out, SizeOf(ty))}

(***************************************************************************)
(* Subatomic64<T> (subatomic64.rs).  Each method is the set of outcomes of *)
(* one call on the cell.                                                   *)
(***************************************************************************)
\* Faulty variant: the size is not checked.
Subatomic64_new_unchecked(ty, item) ==
    {Outcome([ty |-> ty, inner |-> raw], "ok", NoValue) :
        raw \in transmute_copy(ToBytes(ty, item), U64Bytes)}

\* Faulty variant: the integer is built from the bytes in big-endian order.
Subatomic64_new_byte_swapped(ty, item) ==
    IF SizeOf(ty) # AssertSize64
    THEN {Outcome(NoCell, "panic", NoValue)}
    ELSE {Outcome([ty |-> ty, inner |-> [i \in 1..U64Bytes |-> raw[U64Bytes + 1 - i]]],
                  "ok", NoValue) :
            raw \in transmute_copy(ToBytes(ty, item), U64Bytes)}

Subatomic64_new(ty, item) ==
    IF SizeOf(ty) # AssertSize64
    THEN {Outcome(NoCell, "panic", NoValue)}
    ELSE {Outcome([ty |-> ty, inner |-> raw], "ok", NoValue) :
            raw \in transmute_copy(ToBytes(ty, item), U64Bytes)}

\* Faulty variant: only the low four bytes are stored, the rest is zero.
Subatomic64_store_truncating(cell, item) ==
    {Outcome([ty |-> cell.ty,
              inner |-> SubSeq(raw, 1, 4) \o <<0, 0, 0, 0>>], "unit", NoValue) :
        raw \in transmute_copy(ToBytes(cell.ty, item), U64Bytes)}

Subatomic64_store(cell, item) ==
    {Outcome([ty |-> cell.ty, inner |-> Atomic_store(cell.inner, raw).inner],
             "unit", NoValue) :
        raw \in transmute_copy(ToBytes(cell.ty, item), U64Bytes)}

\* Faulty variant: the value swapped in is returned instead of the previous one.
Subatomic64_swap_returns_new(cell, item) ==
    UNION {Reinterpreted(cell.ty, [Atomic_swap(cell.inner, raw) EXCEPT !.out = raw]) :
            raw \in transmute_copy(ToBytes(cell.ty, item), U64Bytes)}

Subatomic64_swap(cell, item) ==
    UNION {Reinterpreted(cell.ty, Atomic_swap(cell.inner, raw)) :
            raw \in transmute_copy(ToBytes(cell.ty, item), U64Bytes)}

Subatomic64_load(cell) == Reinterpreted(cell.ty, Atomic_load(cell.inner))

\* Faulty variant: new is written whether or not the comparison holds.
Subatomic64_compare_exchange_always_writes(cell, current, new) ==
    UNION {Reinterpreted(cell.ty,
                [Atomic_compare_exchange(cell.inner, c, n) EXCEPT !.inner = n]) :
            <<c, n>> \in transmute_copy(ToBytes(cell.ty, current), U64Bytes)
                         \X transmute_copy(ToBytes(cell.ty, new), U64Bytes)}

\* Faulty variant: a failure carries the expected value, not the actual one.
Subatomic64_compare_exchange_err_returns_expected(cell, current, new) ==
    UNION {Reinterpreted(cell.ty,
                LET r == Atomic_compare_exchange(cell.inner, c, n)
                IN  IF r.kind = "err" THEN [r EXCEPT !.out = c] ELSE r) :
            <<c, n>> \in transmute_copy(ToBytes(cell.ty, current), U64Bytes)
                         \X transmute_copy(ToBytes(cell.ty, new), U64Bytes)}

Subatomic64_compare_exchange(cell, current, new) ==
    UNION {Reinterpreted(cell.ty, Atomic_compare_exchange(cell.inner, c, n)) :
            <<c, n>> \in transmute_copy(ToBytes(cell.ty, current), U64Bytes)
                         \X transmute_copy(ToBytes(cell.ty, new), U64Bytes)}

\* Faulty variant: a failure carries the value offered, not the actual one.
Subatomic64_compare_exchange_weak_err_returns_new(cell, current, new) ==
    UNION {UNION {Reinterpreted(cell.ty,
                        IF r.kind = "err" THEN [r EXCEPT !.out = n] ELSE r) :
                    r \in Atomic_compare_exchange_weak(cell.inner, c, n)} :
            <<c, n>> \in transmute_copy(ToBytes(cell.ty, current), U64Bytes)
                         \X transmute_copy(ToBytes(cell.ty, new), U64Bytes)}

Subatomic64_compare_exchange_weak(cell, current, new) ==
    UNION {UNION {Reinterpreted(cell.ty, r) :
                    r \in Atomic_compare_exchange_weak(cell.inner, c, n)} :
            <<c, n>> \in transmute_copy(ToBytes(cell.ty, current), U64Bytes)
                         \X transmute_copy(ToBytes(cell.ty, new), U64Bytes)}

(***************************************************************************)
(* Subatomic32<T> (subatomic32.rs).                                        *)
(***************************************************************************)
\* Faulty variant: the size is not checked.
Subatomic32_new_unchecked(ty, item) ==
    {Outcome([ty |-> ty, inner |-> raw], "ok", NoValue) :
        raw \in transmute_copy(ToBytes(ty, item), U32Bytes)}

Subatomic32_new(ty, item) ==
    IF SizeOf(ty) # AssertSize32
    THEN {Outcome(NoCell, "panic", NoValue)}
    ELSE {Outcome([ty |-> ty, inner |-> raw], "ok", NoValue) :
            raw \in transmute_copy(ToBytes(ty, item), U32Bytes)}

Subatomic32_store(cell, item) ==
    {Outcome([ty |-> cell.ty, inner |-> Atomic_store(cell.inner, raw).inner],
             "unit", NoValue) :
        raw \in transmute_copy(ToBytes(cell.ty, item), U32Bytes)}

\* Faulty variant: the value swapped in is returned instead of the previous one.
Subatomic32_swap_returns_new(cell, item) ==
    UNION {Reinterpreted(cell.ty, [Atomic_swap(cell.inner, raw) EXCEPT !.out = raw]) :
            raw \in transmute_copy(ToBytes(cell.ty, item), U32Bytes)}

Subatomic32_swap(cell, item) ==
    UNION {Reinterpreted(cell.ty, Atomic_swap(cell.inner, raw)) :
            raw \in transmute_copy(ToBytes(cell.ty, item), U32Bytes)}

Subatomic32_load_taking(cell) ==
    Reinterpreted(cell.ty, Atomic_swap(cell.inner, [i \in 1..U32Bytes |-> 0]))

Subatomic32_load(cell) == Reinterpreted(cell.ty, Atomic_load(cell.inner))

\* Faulty variant: the two arguments are passed in the wrong order.
Subatomic32_compare_exchange_swapped_args(cell, current, new) ==
    UNION {Reinterpreted(cell.ty, Atomic_compare_exchange(cell.inner, n, c)) :
            <<c, n>> \in transmute_copy(ToBytes(cell.ty, current), U32Bytes)
                         \X transmute_copy(ToBytes(cell.ty, new), U32Bytes)}

\* Faulty variant: the weak primitive is called.
Subatomic32_compare_exchange_calls_weak(cell, current, new) ==
    UNION {UNION {Reinterpreted(cell.ty, r) :
                    r \in Atomic_compare_exchange_weak(cell.inner, c, n)} :
            <<c, n>> \in transmute_copy(ToBytes(cell.ty, current), U32Bytes)
                         \X transmute_copy(ToBytes(cell.ty, new), U32Bytes)}

Subatomic32_compare_exchange(cell, current, new) ==
    UNION {Reinterpreted(cell.ty, Atomic_compare_exchange(cell.inner, c, n)) :
            <<c, n>> \in transmute_copy(ToBytes(cell.ty, current), U32Bytes)
                         \X transmute_copy(ToBytes(cell.ty, new), U32Bytes)}

\* Faulty variant: the two arguments are passed in the wrong order.
Subatomic32_compare_exchange_weak_swapped_args(cell, current, new) ==
    UNION {UNION {Reinterpreted(cell.ty, r) :
                    r \in Atomic_compare_exchange_weak(cell.inner, n, c)} :
            <<c, n>> \in transmute_copy(ToBytes(cell.ty, current), U32Bytes)
                         \X transmute_copy(ToBytes(cell.ty, new), U32Bytes)}

Subatomic32_compare_exchange_weak_retrying(cell, current, new) ==
    {o \in UNION {UNION {Reinterpreted(cell.ty, r) :
                           r \in Atomic_compare_exchange_weak(cell.inner, c, n)} :
                   <<c, n>> \in transmute_copy(ToBytes(cell.ty, current), U32Bytes)
                                \X transmute_copy(ToBytes(cell.ty, new), U32Bytes)} :
        o.kind = "ok"}

Subatomic32_compare_exchange_weak(cell, current, new) ==
    UNION {UNION {Reinterpreted(cell.ty, r) :
                    r \in Atomic_compare_exchange_weak(cell.inner, c, n)} :
            <<c, n>> \in transmute_copy(ToBytes(cell.ty, current), U32Bytes)
                         \X transmute_copy(ToBytes(cell.ty, new), U32Bytes)}

\* impl Default: Self::new(T::default()).
Subatomic32_default(ty) == Subatomic32_new(ty, DefaultValue)

\* impl Debug / Display / Serialize: the value handed to T's own
\* implementation is the one obtained by self.load().
Subatomic32_fmt_Debug(cell) ==
    {Outcome(o.cell, "debug", o.ret) : o \in Subatomic32_load(cell)}

Subatomic32_fmt_Display(cell) ==
    {Outcome(o.cell, "display", o.ret) : o \in Subatomic32_load(cell)}

Subatomic32_serialize(cell) ==
    {Outcome(o.cell, "serialized", o.ret) : o \in Subatomic32_load(cell)}

\* impl Deserialize: parsed is the result of T::deserialize(deserializer);
\* its error is returned by `?` before new is called.
Parsed == {[kind |-> "ok", ret |-> v] : v \in Values}
              \cup {[kind |-> "err", ret |-> NoValue]}

Subatomic32_deserialize_unchecked(ty, parsed) ==
    IF parsed.kind = "err"
    THEN {Outcome(NoCell, "err", NoValue)}
    ELSE Subatomic32_new_unchecked(ty, parsed.ret)

Subatomic32_deserialize(ty, parsed) ==
    IF parsed.kind = "err"
    THEN {Outcome(NoCell, "err", NoValue)}
    ELSE Subatomic32_new(ty, parsed.ret)

(***************************************************************************)
(* The memory orderings each method passes to its atomic integer, in the   *)
(* order of the call's arguments (success, failure for the compare-        *)
(* exchanges).                                                             *)
(***************************************************************************)
Subatomic64_ordering ==
    [store |-> <<"SeqCst">>, swap |-> <<"SeqCst">>, load |-> <<"SeqCst">>,
     compare_exchange |-> <<"SeqCst", "SeqCst">>,
     compare_exchange_weak |-> <<"SeqCst", "SeqCst">>]

Subatomic32_ordering_relaxed_store ==
    [store |-> <<"Relaxed">>, swap |-> <<"SeqCst">>, load |-> <<"SeqCst">>,
     compare_exchange |-> <<"SeqCst", "SeqCst">>,
     compare_exchange_weak |-> <<"SeqCst", "SeqCst">>]

Subatomic32_ordering ==
    [store |-> <<"SeqCst">>, swap |-> <<"SeqCst">>, load |-> <<"SeqCst">>,
     compare_exchange |-> <<"SeqCst", "SeqCst">>,
     compare_exchange_weak |-> <<"SeqCst", "SeqCst">>]

OrderingOf(c) ==
    IF c = "Subatomic32" THEN Subatomic32_ordering ELSE Subatomic64_ordering

SeqCstOp(c, op) ==
    \A i \in DOMAIN OrderingOf(c)[op] : OrderingOf(c)[op][i] = "SeqCst"

(***************************************************************************)
(* What each component offers: its inherent methods and the traits it      *)
(* implements.  subatomic64.rs has the impl block of the six methods only. *)
(***************************************************************************)
Subatomic64_operations ==
    {"new", "store", "swap", "load", "compare_exchange", "compare_exchange_weak"}

Subatomic32_operations ==
    {"new", "store", "swap", "load", "compare_exchange", "compare_exchange_weak",
     "default", "fmt_debug", "fmt_display", "serialize", "deserialize"}

Operations(c) ==
    IF c = "Subatomic32" THEN Subatomic32_operations ELSE Subatomic64_operations

(***************************************************************************)
(* The method of the component c.                                          *)
(***************************************************************************)
New(c, ty, item) ==
    IF c = "Subatomic32" THEN Subatomic32_new(ty, item) ELSE Subatomic64_new(ty, item)

Store(c, cell, item) ==
    IF c = "Subatomic32" THEN Subatomic32_store(cell, item)
    ELSE Subatomic64_store(cell, item)

Swap(c, cell, item) ==
    IF c = "Subatomic32" THEN Subatomic32_swap(cell, item)
    ELSE Subatomic64_swap(cell, item)

Load(c, cell) ==
    IF c = "Subatomic32" THEN Subatomic32_load(cell) ELSE Subatomic64_load(cell)

CompareExchange(c, cell, current, new) ==
    IF c = "Subatomic32" THEN Subatomic32_compare_exchange(cell, current, new)
    ELSE Subatomic64_compare_exchange(cell, current, new)

CompareExchangeWeak(c, cell, current, new) ==
    IF c = "Subatomic32" THEN Subatomic32_compare_exchange_weak(cell, current, new)
    ELSE Subatomic64_compare_exchange_weak(cell, current, new)

(***************************************************************************)
(* State.                                                                  *)
(*   features   the width families compiled in (lib.rs, cfg(feature))      *)
(*   cells      the cell of each component, NoCell before it is built      *)
(*   written    per cell, the T values passed so far to a construction     *)
(*              that built it, to store, to swap, or as `new` to a         *)
(*              compare-exchange that reported success                     *)
(*   installed  per cell, the T value passed by the most recent of those   *)
(*   ev         the most recent call: caller, method, arguments, result,   *)
(*              the value the cell held just before it (before) and the    *)
(*              value installed[c] had then (prior)                        *)
(*   sw, lp     the callers of the concurrent-swap and of the retry-loop   *)
(*              scenarios                                                  *)
(*   pr         the two widths driven in lockstep: the last operation and  *)
(*              what each cell answered                                    *)
(*   lt         two threads that each store to one cell and then load the  *)
(*              other: program counters, stores issued and not yet         *)
(*              performed, values loaded                                   *)
(*   rc         threads racing with the same expected value: their new     *)
(*              values and results                                         *)
(***************************************************************************)
NoEvent ==
    [t |-> 0, op |-> "none", cell |-> "none", ty |-> "none", current |-> NoValue,
     new |-> NoValue, kind |-> "none", ret |-> NoValue, before |-> NoValue,
     prior |-> NoValue]

Swappers == 1..NumSwappers

SwIdle ==
    [cell |-> "none", init |-> NoValue, vals |-> [t \in Swappers |-> NoValue],
     rets |-> [t \in Swappers |-> NoValue], final |-> NoValue]

LpIdle ==
    [cell |-> "none", expected |-> NoValue, new |-> NoValue, done |-> FALSE,
     failed |-> FALSE]

PrIdle ==
    [op |-> "none", kind32 |-> "none", ret32 |-> NoValue, kind64 |-> "none",
     ret64 |-> NoValue]

LtThreads == {1, 2}

NoCall == [op |-> "none", current |-> NoValue, new |-> NoValue]

LtIdle ==
    [init |-> [c \in Cells |-> NoValue], pc |-> [t \in LtThreads |-> "start"],
     buf |-> [t \in LtThreads |-> NoCall], r |-> [t \in LtThreads |-> NoValue],
     order |-> <<>>]

Racers == 1..NumRacers

NoResult == [kind |-> "none", ret |-> NoValue]

RcIdle ==
    [cell |-> "none", weak |-> FALSE, v |-> NoValue,
     news |-> [t \in Racers |-> NoValue], res |-> [t \in Racers |-> NoResult]]

Constructors == {"new", "default", "deserialize"}

Installs(op, kind) ==
    \/ op \in Constructors /\ kind = "ok"
    \/ op \in {"store", "swap"}
    \/ op \in {"compare_exchange", "compare_exchange_weak"} /\ kind = "ok"

\* The call op(current, new) by t on cell c ended with outcome o.
Apply_shared(t, op, c, ty, current, new, o) ==
    /\ cells' = [d \in Cells |->
                   IF d = c \/ cells[d] = NoCell \/ o.cell = NoCell THEN
                       (IF d = c THEN o.cell ELSE cells[d])
                   ELSE [cells[d] EXCEPT
                           !.inner = ToBytes(cells[d].ty, ValueOf(o.cell))]]
    /\ ev' = [t |-> t, op |-> op, cell |-> c, ty |-> ty, current |-> current,
              new |-> new, kind |-> o.kind, ret |-> o.ret,
              before |-> ValueOf(cells[c]), prior |-> installed[c]]
    /\ written' = [written EXCEPT
                     ![c] = IF Installs(op, o.kind) THEN @ \cup {new} ELSE @]
    /\ installed' = [installed EXCEPT
                       ![c] = IF Installs(op, o.kind) THEN new ELSE @]
    /\ UNCHANGED features

Apply(t, op, c, ty, current, new, o) ==
    /\ cells' = [cells EXCEPT ![c] = o.cell]
    /\ ev' = [t |-> t, op |-> op, cell |-> c, ty |-> ty, current |-> current,
              new |-> new, kind |-> o.kind, ret |-> o.ret,
              before |-> ValueOf(cells[c]), prior |-> installed[c]]
    /\ written' = [written EXCEPT
                     ![c] = IF Installs(op, o.kind) THEN @ \cup {new} ELSE @]
    /\ installed' = [installed EXCEPT
                       ![c] = IF Installs(op, o.kind) THEN new ELSE @]
    /\ UNCHANGED features

\* No cell is built yet.  The two families are independent features and
\* their cells share nothing, so a behaviour has one of them compiled in.
Init ==
    /\ features \in {{"Subatomic32"}, {"Subatomic64"}}
    /\ cells = [c \in Cells |-> NoCell]
    /\ written = [c \in Cells |-> {}]
    /\ installed = [c \in Cells |-> NoValue]
    /\ ev = NoEvent
    /\ sw = SwIdle
    /\ lp = LpIdle
    /\ pr = PrIdle
    /\ lt = LtIdle
    /\ rc = RcIdle

\* The same with both families compiled in.
InitBoth ==
    /\ features = Cells
    /\ cells = [c \in Cells |-> NoCell]
    /\ written = [c \in Cells |-> {}]
    /\ installed = [c \in Cells |-> NoValue]
    /\ ev = NoEvent
    /\ sw = SwIdle
    /\ lp = LpIdle
    /\ pr = PrIdle
    /\ lt = LtIdle
    /\ rc = RcIdle

Alive == {c \in features : cells[c] # NoCell}

(***************************************************************************)
(* Calls by any thread, in any order.                                      *)
(***************************************************************************)
DoNew ==
    \E t \in Threads, c \in features, ty \in Types, item \in Values :
        /\ cells[c] = NoCell
        /\ \E o \in New(c, ty, item) : Apply(t, "new", c, ty, NoValue, item, o)
        /\ UNCHANGED <<sw, lp, pr, lt, rc>>

DoDefault ==
    \E t \in Threads, ty \in Types :
        /\ "Subatomic32" \in features
        /\ cells["Subatomic32"] = NoCell
        /\ \E o \in Subatomic32_default(ty) :
              Apply(t, "default", "Subatomic32", ty, NoValue, DefaultValue, o)
        /\ UNCHANGED <<sw, lp, pr, lt, rc>>

DoDeserialize ==
    \E t \in Threads, ty \in Types, parsed \in Parsed :
        /\ "Subatomic32" \in features
        /\ cells["Subatomic32"] = NoCell
        /\ \E o \in Subatomic32_deserialize(ty, parsed) :
              Apply(t, "deserialize", "Subatomic32", ty, NoValue, parsed.ret, o)
        /\ UNCHANGED <<sw, lp, pr, lt, rc>>

DoStore ==
    \E t \in Threads, c \in Alive, item \in Values :
        /\ \E o \in Store(c, cells[c], item) :
              Apply(t, "store", c, cells[c].ty, NoValue, item, o)
        /\ UNCHANGED <<sw, lp, pr, lt, rc>>

DoSwap ==
    \E t \in Threads, c \in Alive, item \in Values :
        /\ \E o \in Swap(c, cells[c], item) :
              Apply(t, "swap", c, cells[c].ty, NoValue, item, o)
        /\ UNCHANGED <<sw, lp, pr, lt, rc>>

DoLoad ==
    \E t \in Threads, c \in Alive :
        /\ \E o \in Load(c, cells[c]) :
              Apply(t, "load", c, cells[c].ty, NoValue, NoValue, o)
        /\ UNCHANGED <<sw, lp, pr, lt, rc>>

DoCompareExchange ==
    \E t \in Threads, c \in Alive, current \in Values, new \in Values :
        /\ \E o \in CompareExchange(c, cells[c], current, new) :
              Apply(t, "compare_exchange", c, cells[c].ty, current, new, o)
        /\ UNCHANGED <<sw, lp, pr, lt, rc>>

DoCompareExchangeWeak ==
    \E t \in Threads, c \in Alive, current \in Values, new \in Values :
        /\ \E o \in CompareExchangeWeak(c, cells[c], current, new) :
              Apply(t, "compare_exchange_weak", c, cells[c].ty, current, new, o)
        /\ UNCHANGED <<sw, lp, pr, lt, rc>>

DoDebug ==
    \E t \in Threads :
        /\ "Subatomic32" \in Alive
        /\ \E o \in Subatomic32_fmt_Debug(cells["Subatomic32"]) :
              Apply(t, "fmt_debug", "Subatomic32", cells["Subatomic32"].ty,
                    NoValue, NoValue, o)
        /\ UNCHANGED <<sw, lp, pr, lt, rc>>

DoDisplay ==
    \E t \in Threads :
        /\ "Subatomic32" \in Alive
        /\ \E o \in Subatomic32_fmt_Display(cells["Subatomic32"]) :
              Apply(t, "fmt_display", "Subatomic32", cells["Subatomic32"].ty,
                    NoValue, NoValue, o)
        /\ UNCHANGED <<sw, lp, pr, lt, rc>>

DoSerialize ==
    \E t \in Threads :
        /\ "Subatomic32" \in Alive
        /\ \E o \in Subatomic32_serialize(cells["Subatomic32"]) :
              Apply(t, "serialize", "Subatomic32", cells["Subatomic32"].ty,
                    NoValue, NoValue, o)
        /\ UNCHANGED <<sw, lp, pr, lt, rc>>

Next ==
    \/ DoNew
    \/ DoDefault
    \/ DoDeserialize
    \/ DoStore
    \/ DoSwap
    \/ DoLoad
    \/ DoCompareExchange
    \/ DoCompareExchangeWeak
    \/ DoDebug
    \/ DoDisplay
    \/ DoSerialize

Spec == Init /\ [][Next]_vars

(***************************************************************************)
(* Concurrent swaps: a cell is built with an initial value, each of the    *)
(* NumSwappers threads calls swap once with its own value, distinct from   *)
(* the others', and after all of them returned the main thread loads.      *)
(***************************************************************************)
Distinct(f) == \A a, b \in DOMAIN f : a # b => f[a] # f[b]

SwSetup ==
    \E c \in features, ty \in Types, v0 \in Values, vs \in [Swappers -> Values] :
        /\ sw = SwIdle
        /\ cells[c] = NoCell
        /\ Distinct(vs)
        /\ \E o \in New(c, ty, v0) :
              /\ Apply(0, "new", c, ty, NoValue, v0, o)
              /\ sw' = IF o.kind = "ok"
                       THEN [sw EXCEPT !.cell = c, !.init = v0, !.vals = vs]
                       ELSE sw
        /\ UNCHANGED <<lp, pr, lt, rc>>

SwWorker(t) ==
    /\ sw.cell # "none"
    /\ sw.rets[t] = NoValue
    /\ \E o \in Swap(sw.cell, cells[sw.cell], sw.vals[t]) :
          /\ Apply(t, "swap", sw.cell, cells[sw.cell].ty, NoValue, sw.vals[t], o)
          /\ sw' = [sw EXCEPT !.rets[t] = o.ret]
    /\ UNCHANGED <<lp, pr, lt, rc>>

SwFinal ==
    /\ sw.cell # "none"
    /\ \A t \in Swappers : sw.rets[t] # NoValue
    /\ sw.final = NoValue
    /\ \E o \in Load(sw.cell, cells[sw.cell]) :
          /\ Apply(0, "load", sw.cell, cells[sw.cell].ty, NoValue, NoValue, o)
          /\ sw' = [sw EXCEPT !.final = o.ret]
    /\ UNCHANGED <<lp, pr, lt, rc>>

SwNext ==
    \/ SwSetup
    \/ \E t \in Swappers : SwWorker(t)
    \/ SwFinal

SwapSpec == Init /\ [][SwNext]_vars

(***************************************************************************)
(* Retry loop: a cell is built, and one caller calls                       *)
(* compare_exchange_weak(expected, new) again and again until it reports   *)
(* success; nobody else writes the cell.  A spurious failure cannot repeat *)
(* forever while the comparison holds: the successful outcome is weakly    *)
(* fair.                                                                   *)
(***************************************************************************)
LpSetup ==
    \E c \in features, ty \in Types, v0 \in Values, e \in Values, n \in Values :
        /\ lp = LpIdle
        /\ cells[c] = NoCell
        /\ \E o \in New(c, ty, v0) :
              /\ Apply(0, "new", c, ty, NoValue, v0, o)
              /\ lp' = IF o.kind = "ok"
                       THEN [lp EXCEPT !.cell = c, !.expected = e, !.new = n]
                       ELSE lp
        /\ UNCHANGED <<sw, pr, lt, rc>>

LpAttempt(kind) ==
    /\ lp.cell # "none"
    /\ ~lp.done
    /\ \E o \in CompareExchangeWeak(lp.cell, cells[lp.cell], lp.expected, lp.new) :
          /\ o.kind = kind
          /\ Apply(1, "compare_exchange_weak", lp.cell, cells[lp.cell].ty,
                   lp.expected, lp.new, o)
          /\ lp' = [lp EXCEPT !.done = (o.kind = "ok"),
                              !.failed = (@ \/ o.kind = "err")]
    /\ UNCHANGED <<sw, pr, lt, rc>>

LpSucceed == LpAttempt("ok")

LpFail == LpAttempt("err")

LpNext ==
    \/ LpSetup
    \/ LpSucceed
    \/ LpFail

LoopSpec == Init /\ [][LpNext]_vars /\ WF_vars(LpSucceed)

(***************************************************************************)
(* Round trip: a cell is built from a value whose fields reach into every  *)
(* byte of the type, and loaded right after.                               *)
(***************************************************************************)
FieldSamples(ty) ==
    CASE ty = "Pair8" -> {0, 1, 255}
      [] ty = "Pair16" -> {0, 1, 255, 256, 65535}
      [] OTHER -> {0, 1, 255, 256, 65535, 65536, 16777216, 2147483647}

SampleValues(ty) == [tag : FieldSamples(ty), count : FieldSamples(ty)]

RtNew ==
    \E c \in features, ty \in Types :
        \E item \in SampleValues(ty) :
            /\ cells[c] = NoCell
            /\ \E o \in New(c, ty, item) : Apply(1, "new", c, ty, NoValue, item, o)
            /\ UNCHANGED <<sw, lp, pr, lt, rc>>

RtLoad ==
    \E c \in Alive :
        /\ ev.op = "new"
        /\ ev.kind = "ok"
        /\ \E o \in Load(c, cells[c]) :
              Apply(1, "load", c, cells[c].ty, NoValue, NoValue, o)
        /\ UNCHANGED <<sw, lp, pr, lt, rc>>

RtNext ==
    \/ RtNew
    \/ RtLoad

RoundTripSpec == Init /\ [][RtNext]_vars

(***************************************************************************)
(* The outcomes of operation op of component c; none when the component    *)
(* does not offer it.  A deserialization whose input does not parse is     *)
(* given new = NoValue.                                                    *)
(***************************************************************************)
Call(c, op, cell, ty, current, new) ==
    IF op \notin Operations(c) THEN {}
    ELSE CASE op = "new" -> New(c, ty, new)
           [] op = "default" -> Subatomic32_default(ty)
           [] op = "deserialize" ->
                Subatomic32_deserialize(ty,
                    IF new = NoValue THEN [kind |-> "err", ret |-> NoValue]
                    ELSE [kind |-> "ok", ret |-> new])
           [] op = "store" -> Store(c, cell, new)
           [] op = "swap" -> Swap(c, cell, new)
           [] op = "load" -> Load(c, cell)
           [] op = "compare_exchange" -> CompareExchange(c, cell, current, new)
           [] op = "compare_exchange_weak" ->
                CompareExchangeWeak(c, cell, current, new)
           [] op = "fmt_debug" -> Subatomic32_fmt_Debug(cell)
           [] op = "fmt_display" -> Subatomic32_fmt_Display(cell)
           [] OTHER -> Subatomic32_serialize(cell)

\* The arguments operation op takes: NoValue stands for an argument it
\* does not have.
ArgsOf(op) ==
    LET cur == IF op \in {"compare_exchange", "compare_exchange_weak"}
               THEN Values ELSE {NoValue}
        new == CASE op \in {"new", "store", "swap", "compare_exchange",
                            "compare_exchange_weak"} -> Values
                 [] op = "deserialize" -> Values \cup {NoValue}
                 [] OTHER -> {NoValue}
    IN  cur \X new

(***************************************************************************)
(* The two widths in lockstep: the same operation is called on the 32-bit  *)
(* and on the 64-bit cell, with the same field values in a type of the     *)
(* corresponding size (the cell's width, or half of it).  A component      *)
(* that does not offer the operation answers "missing" and keeps its cell. *)
(***************************************************************************)
TypeFor(c, rel) ==
    IF c = "Subatomic32"
    THEN (IF rel = "match" THEN "Pair16" ELSE "Pair8")
    ELSE (IF rel = "match" THEN "Pair32" ELSE "Pair16")

Answers(c, op, ty, current, new) ==
    LET outs == Call(c, op, cells[c], ty, current, new)
    IN  IF outs = {} THEN {Outcome(cells[c], "missing", NoValue)} ELSE outs

\* The 64-bit answers that go with the 32-bit answer o32: those of the same
\* shape when there are any.
Matching(o32, outs64) ==
    LET same == {o \in outs64 : o.kind = o32.kind}
    IN  IF same = {} THEN outs64 ELSE same

PrBoth(op, ty32, ty64, current, new) ==
    \E o32 \in Answers("Subatomic32", op, ty32, current, new) :
        \E o64 \in Matching(o32, Answers("Subatomic64", op, ty64, current, new)) :
            LET o == [c \in Cells |-> IF c = "Subatomic32" THEN o32 ELSE o64]
                val == IF op = "default" THEN DefaultValue ELSE new
            IN  /\ cells' = [c \in Cells |-> o[c].cell]
                /\ written' = [c \in Cells |->
                                 IF Installs(op, o[c].kind)
                                 THEN written[c] \cup {val} ELSE written[c]]
                /\ installed' = [c \in Cells |->
                                   IF Installs(op, o[c].kind)
                                   THEN val ELSE installed[c]]
                /\ ev' = [t |-> 0, op |-> op, cell |-> "Subatomic32", ty |-> ty32,
                          current |-> current, new |-> new, kind |-> o32.kind,
                          ret |-> o32.ret,
                          before |-> ValueOf(cells["Subatomic32"]),
                          prior |-> installed["Subatomic32"]]
                /\ pr' = [op |-> op, kind32 |-> o32.kind, ret32 |-> o32.ret,
                          kind64 |-> o64.kind, ret64 |-> o64.ret]
                /\ UNCHANGED <<features, sw, lp, lt, rc>>

PrConstruct ==
    \E op \in Constructors, rel \in {"match", "half"} :
        \E a \in ArgsOf(op) :
            /\ \A c \in Cells : cells[c] = NoCell
            /\ PrBoth(op, TypeFor("Subatomic32", rel), TypeFor("Subatomic64", rel),
                      a[1], a[2])

PrAccess ==
    \E op \in (Subatomic32_operations \cup Subatomic64_operations) \ Constructors :
        \E a \in ArgsOf(op) :
            /\ \A c \in Cells : cells[c] # NoCell
            /\ PrBoth(op, cells["Subatomic32"].ty, cells["Subatomic64"].ty,
                      a[1], a[2])

PrNext ==
    \/ PrConstruct
    \/ PrAccess

PairSpec == InitBoth /\ [][PrNext]_vars

(***************************************************************************)
(* Two threads, two cells.  Each thread first writes its own cell (by a    *)
(* store, a swap or a compare-exchange expecting the value the cell was    *)
(* built with or the one it installs) and then loads the other thread's    *)
(* cell.  A write is issued and then takes effect; lt.order lists the      *)
(* operations in the order they take effect.  The thread goes on to its    *)
(* load only once the write has taken effect when both the write and the   *)
(* load are SeqCst: with a weaker ordering on either (as the language's    *)
(* memory model has it) the load may overtake the write.                   *)
(***************************************************************************)
Own(t) == IF t = 1 THEN "Subatomic32" ELSE "Subatomic64"

Other(t) == IF t = 1 THEN "Subatomic64" ELSE "Subatomic32"

Writes == {"store", "swap", "compare_exchange", "compare_exchange_weak"}

Effect(t, idx, op, c, new, o) ==
    [t |-> t, idx |-> idx, op |-> op, cell |-> c,
     wrote |-> IF Installs(op, o.kind) THEN new ELSE NoValue,
     read |-> IF op = "store" THEN NoValue ELSE o.ret]

LtNew ==
    \E c \in Cells, item \in Values :
        /\ cells[c] = NoCell
        /\ \E o \in New(c, TypeFor(c, "match"), item) :
              Apply(0, "new", c, TypeFor(c, "match"), NoValue, item, o)
        /\ lt' = [lt EXCEPT !.init[c] = item]
        /\ UNCHANGED <<sw, lp, pr, rc>>

LtIssue(t) ==
    \E op \in Writes :
        \E a \in ArgsOf(op) :
            /\ \A c \in Cells : cells[c] # NoCell
            /\ lt.pc[t] = "start"
            /\ a[1] \in {NoValue, lt.init[Own(t)], a[2]}
            /\ lt' = [lt EXCEPT !.pc[t] = "issued",
                                !.buf[t] = [op |-> op, current |-> a[1],
                                            new |-> a[2]]]
            /\ UNCHANGED <<features, cells, written, installed, ev, sw, lp, pr, rc>>

LtCommit(t) ==
    LET call == lt.buf[t]
        c == Own(t)
    IN  /\ call # NoCall
        /\ \E o \in Call(c, call.op, cells[c], cells[c].ty, call.current, call.new) :
              /\ Apply(t, call.op, c, cells[c].ty, call.current, call.new, o)
              /\ lt' = [lt EXCEPT
                          !.pc[t] = IF @ = "issued" THEN "committed" ELSE "done",
                          !.buf[t] = NoCall,
                          !.order = Append(@, Effect(t, 1, call.op, c, call.new, o))]
        /\ UNCHANGED <<sw, lp, pr, rc>>

LtLoad(t) ==
    LET c == Other(t)
    IN  /\ \/ lt.pc[t] = "committed"
           \/ /\ lt.pc[t] = "issued"
              /\ ~(SeqCstOp(Own(t), lt.buf[t].op) /\ SeqCstOp(c, "load"))
        /\ \E o \in Load(c, cells[c]) :
              /\ Apply(t, "load", c, cells[c].ty, NoValue, NoValue, o)
              /\ lt' = [lt EXCEPT
                          !.pc[t] = IF @ = "committed" THEN "done" ELSE "overtaken",
                          !.r[t] = o.ret,
                          !.order = Append(@, Effect(t, 2, "load", c, NoValue, o))]
        /\ UNCHANGED <<sw, lp, pr, rc>>

LtNext ==
    \/ LtNew
    \/ \E t \in LtThreads : LtIssue(t)
    \/ \E t \in LtThreads : LtCommit(t)
    \/ \E t \in LtThreads : LtLoad(t)

LitmusSpec == InitBoth /\ [][LtNext]_vars

(***************************************************************************)
(* The race: a cell is built holding v and every racer calls               *)
(* compare_exchange (or every racer compare_exchange_weak) once, expecting *)
(* v and installing a value of its own that is not v.  Nobody else writes. *)
(***************************************************************************)
RcSetup ==
    \E c \in features, weak \in BOOLEAN, v \in Values :
        \E news \in [Racers -> Values \ {v}] :
            /\ cells[c] = NoCell
            /\ rc = RcIdle
            /\ \E o \in New(c, TypeFor(c, "match"), v) :
                  Apply(0, "new", c, TypeFor(c, "match"), NoValue, v, o)
            /\ rc' = [RcIdle EXCEPT !.cell = c, !.weak = weak, !.v = v,
                                    !.news = news]
            /\ UNCHANGED <<sw, lp, pr, lt>>

RcCall(t) ==
    LET c == rc.cell
        op == IF rc.weak THEN "compare_exchange_weak" ELSE "compare_exchange"
    IN  /\ c \in Alive
        /\ rc.res[t] = NoResult
        /\ \E o \in Call(c, op, cells[c], cells[c].ty, rc.v, rc.news[t]) :
              /\ Apply(t, op, c, cells[c].ty, rc.v, rc.news[t], o)
              /\ rc' = [rc EXCEPT !.res[t] = [kind |-> o.kind, ret |-> o.ret]]
        /\ UNCHANGED <<sw, lp, pr, lt>>

RcNext ==
    \/ RcSetup
    \/ \E t \in Racers : RcCall(t)

RaceSpec == Init /\ [][RcNext]_vars

(***************************************************************************)
(* Two cells side by side, one of each width: the cells are built, with    *)
(* any value and any type, and then one of the six methods is called on    *)
(* one of them while the other holds whatever it was built with.           *)
(***************************************************************************)
FrNew ==
    \E c \in Cells, ty \in Types, item \in Values :
        /\ cells[c] = NoCell
        /\ ev.op \in {"none", "new"}
        /\ \E o \in New(c, ty, item) : Apply(1, "new", c, ty, NoValue, item, o)
        /\ UNCHANGED <<sw, lp, pr, lt, rc>>

FrCall ==
    \E c \in Cells, op \in Subatomic64_operations \ Constructors :
        \E a \in ArgsOf(op) :
            /\ cells[c] # NoCell
            /\ ev.op = "new"
            /\ \E o \in Call(c, op, cells[c], cells[c].ty, a[1], a[2]) :
                  Apply(1, op, c, cells[c].ty, a[1], a[2], o)
            /\ UNCHANGED <<sw, lp, pr, lt, rc>>

FrNext ==
    \/ FrNew
    \/ FrCall

FrameSpec == InitBoth /\ [][FrNext]_vars

(***************************************************************************)
(* Properties.                                                             *)
(***************************************************************************)
Accesses ==
    {"store", "swap", "load", "compare_exchange", "compare_exchange_weak",
     "fmt_debug", "fmt_display", "serialize"}

\* C1: the value a cell holds, and so the result of every load, is a value
\* that was passed earlier to the construction, to store, to swap, or as
\* new to a compare-exchange that succeeded; never a value nobody wrote, a
\* mix of two values, or the new of a failed compare-exchange.
C1_StoredValueWasWritten ==
    /\ \A c \in Cells : cells[c] # NoCell => ValueOf(cells[c]) \in written[c]
    /\ ev.op = "load" => ev.ret \in written[ev.cell]
    /\ ev.op \in {"compare_exchange", "compare_exchange_weak"} /\ ev.kind = "err"
          /\ ev.new \notin written[ev.cell]
          => ValueOf(cells[ev.cell]) # ev.new

\* A compare-exchange failed whose new was never written, on a cell that
\* was written at least twice.
C1_Witness ==
    /\ ev.op = "compare_exchange"
    /\ ev.kind = "err"
    /\ ev.new \notin written[ev.cell]
    /\ Cardinality(written[ev.cell]) >= 2

Occurrences(v, f) == Cardinality({t \in DOMAIN f : f[t] = v})

One(b) == IF b THEN 1 ELSE 0

\* C2: once every thread has swapped its own distinct value in and the final
\* load is done, the values returned by the swaps together with the loaded
\* one are, as a multiset, the initial value and the values swapped in.
C2_SwapsLoseAndDuplicateNothing ==
    sw.final # NoValue =>
        \A v \in Values \cup {sw.rets[t] : t \in Swappers} \cup {sw.final} :
            Occurrences(v, sw.rets) + One(sw.final = v)
                = Occurrences(v, sw.vals) + One(sw.init = v)

\* All swaps and the final load are done, and one thread got the value of
\* another.
C2_Witness ==
    /\ sw.final # NoValue
    /\ \E t, u \in Swappers : t # u /\ sw.rets[t] = sw.vals[u]

\* C3: swap(new) returns the value the cell held just before the step, which
\* is the value installed last (the construction value if nothing was
\* written since), and leaves the cell holding new.
C3_SwapReturnsPrevious ==
    ev.op = "swap" =>
        /\ ev.kind = "val"
        /\ ev.ret = ev.before
        /\ ev.ret = ev.prior
        /\ ValueOf(cells[ev.cell]) = ev.new
        /\ installed[ev.cell] = ev.new

\* A swap replaced a value by a different one.
C3_Witness ==
    /\ ev.op = "swap"
    /\ ev.new # ev.before
    /\ ev.ret = ev.before

\* C4: compare_exchange(expected, new) on a cell holding expected reports
\* success carrying the value held before, equal to expected, and the cell
\* then holds new.
C4_CompareExchangeSuccess ==
    ev.op = "compare_exchange" /\ ev.before = ev.current =>
        /\ ev.kind = "ok"
        /\ ev.ret = ev.before
        /\ ev.ret = ev.current
        /\ ValueOf(cells[ev.cell]) = ev.new
        /\ installed[ev.cell] = ev.new

\* A compare_exchange succeeded and changed the value.
C4_Witness ==
    /\ ev.op = "compare_exchange"
    /\ ev.before = ev.current
    /\ ev.new # ev.current
    /\ ev.kind = "ok"

\* C5: compare_exchange(expected, new) on a cell holding another value
\* reports failure carrying that value, and the cell is unchanged.
C5_CompareExchangeFailure ==
    ev.op = "compare_exchange" /\ ev.before # ev.current =>
        /\ ev.kind = "err"
        /\ ev.ret = ev.before
        /\ ev.ret # ev.current
        /\ ValueOf(cells[ev.cell]) = ev.before
        /\ installed[ev.cell] = ev.prior

\* A compare_exchange failed, offering a value the cell did not hold.
C5_Witness ==
    /\ ev.op = "compare_exchange"
    /\ ev.before # ev.current
    /\ ev.new # ev.before
    /\ ev.kind = "err"

\* C6: compare_exchange fails exactly when the cell's value at that instant
\* differs from expected; a failure never carries expected.
C6_NoSpuriousFailure ==
    ev.op = "compare_exchange" =>
        /\ ev.kind \in {"ok", "err"}
        /\ ev.kind = "err" <=> ev.before # ev.current
        /\ ev.kind = "err" => ev.ret # ev.current

\* A compare_exchange on the 32-bit cell failed, carrying a value other than
\* expected.
C6_Witness ==
    /\ ev.op = "compare_exchange"
    /\ ev.kind = "err"
    /\ ev.cell = "Subatomic32"
    /\ ev.ret # ev.current

\* C7: compare_exchange_weak succeeds only when the cell held expected, then
\* carries it and installs new; every failure leaves the cell unchanged and
\* carries the value the cell holds, which may be expected.
C7_WeakPayload ==
    ev.op = "compare_exchange_weak" =>
        /\ ev.kind \in {"ok", "err"}
        /\ ev.kind = "ok" =>
              /\ ev.before = ev.current
              /\ ev.ret = ev.current
              /\ ValueOf(cells[ev.cell]) = ev.new
              /\ installed[ev.cell] = ev.new
        /\ ev.kind = "err" =>
              /\ ev.ret = ev.before
              /\ ValueOf(cells[ev.cell]) = ev.before
              /\ installed[ev.cell] = ev.prior

\* A compare_exchange_weak failed although the cell held expected.
C7_Witness ==
    /\ ev.op = "compare_exchange_weak"
    /\ ev.kind = "err"
    /\ ev.ret = ev.current
    /\ ev.new # ev.current

LpHoldsExpected ==
    /\ lp.cell # "none"
    /\ ~lp.done
    /\ ValueOf(cells[lp.cell]) = lp.expected

LpSucceeded == lp.done /\ ValueOf(cells[lp.cell]) = lp.new

C10_StoreLoadCoherence ==
    /\ ev.op = "store" =>
          /\ ev.kind = "unit"
          /\ ev.ret = NoValue
          /\ ValueOf(cells[ev.cell]) = ev.new
    /\ \A c \in Cells : cells[c] # NoCell => ValueOf(cells[c]) = installed[c]
    /\ ev.op = "load" => ev.kind = "val" /\ ev.ret = installed[ev.cell]

\* A store replaced the construction value by a different one.
C10_Witness ==
    /\ ev.op = "store"
    /\ ev.new # ev.before
    /\ ev.before = ev.prior
    /\ written[ev.cell] = {ev.before, ev.new}
    /\ ValueOf(cells[ev.cell]) = ev.new

\* C11: load right after construct(v) returns exactly v, for every v of a
\* type of the cell's width: the integer holds the bytes of v unchanged and
\* in the same order, and they are read back as they are.
C11_RoundTripIdentity ==
    /\ ev.op = "new" /\ ev.kind = "ok" =>
          /\ cells[ev.cell].inner = ToBytes(ev.ty, ev.new)
          /\ ValueOf(cells[ev.cell]) = ev.new
    /\ ev.op = "load" =>
          /\ ev.ret = installed[ev.cell]
          /\ ev.ret = ev.before
          /\ ValueOf(cells[ev.cell]) = ev.ret

\* A value whose fields fill several bytes was loaded back.
C11_Witness ==
    /\ ev.op = "load"
    /\ ev.ret = installed[ev.cell]
    /\ ev.ret.tag > 255
    /\ ev.ret.count = 255

\* Default construction of the cell of component c.
DefaultOn(c) == DoDefault /\ ev'.cell = c

\* C12: each of the two widths offers the default construction, which builds
\* the cell as new(T::default()) does: it is subject to the size check and
\* the cell then holds, and a load returns, T's default value.
C12_DefaultOnBothWidths ==
    /\ \A c \in features :
          /\ "default" \in Operations(c)
          /\ cells[c] = NoCell => ENABLED DefaultOn(c)
    /\ ev.op = "default" =>
          /\ ev.kind = IF SizeOf(ev.ty) = Width(ev.cell) THEN "ok" ELSE "panic"
          /\ ev.kind = "ok" => ValueOf(cells[ev.cell]) = DefaultValue
          /\ ev.kind = "panic" => cells[ev.cell] = NoCell

\* C13: the two widths offer the same operations and, called alike on
\* corresponding values, answer alike and hold corresponding values.
C13_SameOperationsSameResults ==
    /\ pr.op # "none" => pr.kind32 = pr.kind64 /\ pr.ret32 = pr.ret64
    /\ cells["Subatomic32"] = NoCell <=> cells["Subatomic64"] = NoCell
    /\ ValueOf(cells["Subatomic32"]) = ValueOf(cells["Subatomic64"])

\* The value cell c holds just before position j of the order: that of the
\* latest write to c before j, the constructed value when there is none.
RECURSIVE LatestWrite(_, _)
LatestWrite(c, j) ==
    IF j = 1 THEN lt.init[c]
    ELSE IF lt.order[j - 1].cell = c /\ lt.order[j - 1].wrote # NoValue
         THEN lt.order[j - 1].wrote
         ELSE LatestWrite(c, j - 1)

\* What thread t's write installed in its cell: the value the cell was
\* built with when the write failed or has not taken effect.
LtWrote(t) ==
    LET mine == {j \in DOMAIN lt.order :
                    /\ lt.order[j].t = t
                    /\ lt.order[j].idx = 1
                    /\ lt.order[j].wrote # NoValue}
    IN  IF mine = {} THEN lt.init[Own(t)] ELSE lt.order[CHOOSE j \in mine : TRUE].wrote

\* C14: every access is SeqCst and nothing weaker; the accesses of all
\* threads to all cells take effect in one order that keeps each thread's
\* program order, and every read returns the latest write to its cell in
\* that order.  In particular two threads that each write their own cell
\* and then load the other's never both miss the other's write.
C14_SequentiallyConsistent ==
    /\ \A c \in Cells : \A op \in DOMAIN OrderingOf(c) : SeqCstOp(c, op)
    /\ \A i, j \in DOMAIN lt.order :
          i < j /\ lt.order[i].t = lt.order[j].t
              => lt.order[i].idx < lt.order[j].idx
    /\ \A j \in DOMAIN lt.order :
          lt.order[j].read # NoValue
              => lt.order[j].read = LatestWrite(lt.order[j].cell, j)
    /\ \A c \in Cells :
          cells[c] # NoCell => ValueOf(cells[c]) = LatestWrite(c, Len(lt.order) + 1)
    /\ (\A t \in LtThreads : lt.pc[t] = "done" /\ LtWrote(t) # lt.init[Own(t)])
          => \E t \in LtThreads : lt.r[t] # lt.init[Other(t)]

C14_Witness ==
    /\ \A t \in LtThreads : lt.pc[t] = "done"
    /\ Len(lt.order) = 4
    /\ \A t \in LtThreads : SeqCstOp(Own(t), lt.order[1].op)
    /\ \E i \in DOMAIN lt.order :
          /\ lt.order[i].op = "load"
          /\ lt.order[i].read # lt.init[lt.order[i].cell]
    /\ \A t \in LtThreads : LtWrote(t) # lt.init[Own(t)]
    /\ \E t \in LtThreads : lt.r[t] = lt.init[Other(t)]

\* The five methods of a constructed cell.
Methods == {"store", "swap", "load", "compare_exchange", "compare_exchange_weak"}

\* C15: on a constructed cell every load, store, swap, compare_exchange and
\* compare_exchange_weak, whatever its arguments and whatever the threads
\* did before, has an outcome, and every outcome is a normal return; each
\* is one step; only a construction whose size check fails halts.
C15_OperationsCompleteUnconditionally ==
    /\ \A c \in Alive : \A op \in Methods : \A a \in ArgsOf(op) :
          LET outs == Call(c, op, cells[c], cells[c].ty, a[1], a[2])
          IN  /\ outs # {}
              /\ \A o \in outs :
                    /\ o.kind \in {"unit", "val", "ok", "err"}
                    /\ o.cell # NoCell
    /\ \A c \in Alive :
          /\ ENABLED \E o \in Store(c, cells[c], DefaultValue) :
                       Apply(1, "store", c, cells[c].ty, NoValue, DefaultValue, o)
          /\ ENABLED \E o \in Load(c, cells[c]) :
                       Apply(1, "load", c, cells[c].ty, NoValue, NoValue, o)
    /\ ev.op \in Methods => ev.kind # "panic" /\ cells[ev.cell] # NoCell
    /\ ev.kind = "panic" =>
          /\ ev.op \in Constructors
          /\ SizeOf(ev.ty) # Width(ev.cell)

C15_Witness ==
    /\ ev.op = "compare_exchange_weak"
    /\ ev.kind = "err"
    /\ ev.t = NumThreads
    /\ ev.before # ev.current
    /\ ev.prior # NoValue
    /\ written[ev.cell] = Values

\* C16: where the serialization adapter exists (Subatomic32; Subatomic64
\* has none), serializing a cell hands the serializer the value one load
\* returns, as a plain T, and leaves the cell as it was; deserializing
\* builds a fresh cell through new, so a T of the wrong size panics and a T
\* of the right size gives a cell whose load returns it; an input that does
\* not parse gives an error and no cell.
C16_SerializationTransparent ==
    /\ \A c \in Alive : "serialize" \in Operations(c) =>
          {[kind |-> o.kind, ret |-> o.ret] : o \in Call(c, "serialize", cells[c], cells[c].ty, NoValue, NoValue)}
              = {[kind |-> "serialized", ret |-> o.ret] : o \in Load(c, cells[c])}
    /\ ev.op = "serialize" =>
          /\ "serialize" \in Operations(ev.cell)
          /\ ev.kind = "serialized"
          /\ ev.ret = ev.before
          /\ ValueOf(cells[ev.cell]) = ev.before
          /\ installed[ev.cell] = ev.prior
          /\ cells[ev.cell].ty = ev.ty
    /\ ev.op = "deserialize" =>
          /\ "deserialize" \in Operations(ev.cell)
          /\ ev.prior = NoValue
          /\ CASE ev.new = NoValue ->
                    ev.kind = "err" /\ cells[ev.cell] = NoCell
               [] ev.new # NoValue /\ SizeOf(ev.ty) # Width(ev.cell) ->
                    ev.kind = "panic" /\ cells[ev.cell] = NoCell
               [] OTHER ->
                    /\ ev.kind = "ok"
                    /\ cells[ev.cell].ty = ev.ty
                    /\ \A o \in Load(ev.cell, cells[ev.cell]) : o.ret = ev.new

C16_Witness ==
    /\ ev.op = "serialize"
    /\ ev.ret # DefaultValue
    /\ ev.ret = installed[ev.cell]
    /\ written[ev.cell] = Values

RcDone == rc.cell # "none" /\ \A t \in Racers : rc.res[t] # NoResult

RcWinners == {t \in Racers : rc.res[t].kind = "ok"}

RcFinal == ValueOf(cells[rc.cell])

\* C17 as stated: when the race is over exactly one compare_exchange has
\* succeeded, carrying v, every other call has failed carrying the value
\* the winner installed, and the cell holds that value; and the same with
\* compare_exchange_weak, except that at most one call has succeeded (read
\* in the claim's favour: nothing is asked when none has).
C17_RaceAsStated ==
    RcDone =>
        /\ IF rc.weak THEN Cardinality(RcWinners) <= 1
                      ELSE Cardinality(RcWinners) = 1
        /\ \A w \in RcWinners :
              /\ rc.res[w].ret = rc.v
              /\ \A t \in Racers \ {w} :
                    rc.res[t].kind = "err" /\ rc.res[t].ret = rc.news[w]
              /\ RcFinal = rc.news[w]

\* C17, amended: with compare_exchange exactly that.  With
\* compare_exchange_weak at most one call succeeds, carrying v; a failed
\* call carries the value the cell held when it ran, which is v (a failure
\* although the comparison held, before any success) or the value the
\* winner installed; the cell ends holding the winner's value, or v when
\* every call failed.
C17_RaceOutcome ==
    /\ rc.cell # "none" =>
          /\ Cardinality(RcWinners) <= 1
          /\ \A w \in RcWinners : rc.res[w].ret = rc.v /\ RcFinal = rc.news[w]
          /\ RcWinners = {} => RcFinal = rc.v
          /\ \A t \in Racers : rc.res[t].kind = "err" =>
                \/ rc.weak /\ rc.res[t].ret = rc.v
                \/ \E w \in RcWinners : rc.res[t].ret = rc.news[w]
          /\ \A t \in Racers : rc.res[t].kind \in {"none", "ok", "err"}
    /\ RcDone /\ ~rc.weak =>
          /\ Cardinality(RcWinners) = 1
          /\ \A w \in RcWinners : \A t \in Racers \ {w} :
                rc.res[t].kind = "err" /\ rc.res[t].ret = rc.news[w]

C17_Witness ==
    /\ RcDone
    /\ rc.weak
    /\ \E w \in RcWinners : \E t \in Racers :
          /\ rc.res[t].kind = "err"
          /\ rc.res[t].ret = rc.v
          /\ rc.news[t] # rc.news[w]

\* The operations that only read a cell.
Reads == {"load", "fmt_debug", "fmt_display"}

\* C18: a load, and a Debug or Display formatting, leaves the cell and its
\* stored value as they were and yields the stored value; so of two reads of
\* a cell with nothing in between the second yields what the first did.
C18_ReadsChangeNothing ==
    [][ev'.op \in Reads =>
          /\ cells' = cells
          /\ installed' = installed
          /\ written' = written
          /\ ev'.ret = ValueOf(cells[ev'.cell])
          /\ ev'.kind = (CASE ev'.op = "load" -> "val"
                           [] ev'.op = "fmt_debug" -> "debug"
                           [] OTHER -> "display")
          /\ ev.op \in Reads /\ ev.cell = ev'.cell => ev'.ret = ev.ret]_vars

C18_Witness ==
    /\ ev.op = "fmt_display"
    /\ ev.ret = ev.before
    /\ ev.ret = ValueOf(cells[ev.cell])
    /\ ev.ret # DefaultValue
    /\ ev.t = NumThreads

\* C19: an operation on one cell (new, load, store, swap, compare_exchange,
\* compare_exchange_weak) leaves every other cell, of either width, as it
\* was, and what it returns is decided by its own cell's value and its
\* arguments, whatever the other cell holds.
C19_CellsDoNotInteract ==
    [][/\ \A c \in Cells : c # ev'.cell =>
             /\ cells'[c] = cells[c]
             /\ written'[c] = written[c]
             /\ installed'[c] = installed[c]
       /\ ev'.op \in {"load", "swap", "compare_exchange", "compare_exchange_weak"}
             => ev'.ret = ValueOf(cells[ev'.cell])
       /\ ev'.op = "compare_exchange"
             => (ev'.kind = "ok" <=> ValueOf(cells[ev'.cell]) = ev'.current)
       /\ ev'.op = "compare_exchange_weak" /\ ev'.kind = "ok"
             => ValueOf(cells[ev'.cell]) = ev'.current
       /\ ev'.op \in {"store", "swap"} \/ ev'.kind = "ok"
             => ValueOf(cells'[ev'.cell]) = ev'.new
       /\ ev'.op = "load" \/ ev'.kind = "err"
             => cells'[ev'.cell] = cells[ev'.cell]]_vars

C19_Witness ==
    /\ ev.op = "swap"
    /\ ev.cell = "Subatomic64"
    /\ cells["Subatomic32"] # NoCell
    /\ ValueOf(cells["Subatomic32"]) = installed["Subatomic32"]
    /\ ValueOf(cells["Subatomic32"]) \notin {ev.new, ev.ret}
    /\ ValueOf(cells["Subatomic64"]) = ev.new

====
